---- MODULE Spec2Model ----
(***************************************************************************)
(* Model of web/js/proxies/Proxies.js (deep mutation tracing of an object  *)
(* graph with Proxy objects) as a state machine over a small JS heap.      *)
(*                                                                         *)
(* The heap holds plain objects (props, frozen, and the hidden members     *)
(* defined with Object.defineProperty), the Proxy/TraceHandler pairs made  *)
(* by Proxies.trace, the listener arrays, and the module-level sequence.   *)
(* Proxies.create and Proxies.trace are translated from the source.  The   *)
(* collaborators whose bodies are not in the repository fragment           *)
(* (TraceHandler, ObjectPaths, Paths, TraceListeners) follow spec.md.      *)
(*                                                                         *)
(* A second specification, PagingSpec, models                              *)
(* web/js/electron/capture/pagination/PagingBrowser.js: a page, the two    *)
(* steps of pageDown around its await, and fullyPaginated.                 *)
(***************************************************************************)
EXTENDS Integers, Sequences, FiniteSets, TLC

\* ------------------------------------------------------------------ bounds
MaxProxies == 4     \* Proxy/TraceHandler pairs ever created
MaxArrs    == 2     \* listener arrays ever allocated
MaxListLen == 4     \* longest listener array
MaxSteps   == 3     \* caller operations in one run
MaxCalls   == 2     \* of which calls of create / trace

\* --------------------------------------------------------------- universes
Obj     == 1..3                     \* plain objects of the heap
Keys    == <<"a", "b">>             \* property names, in enumeration order
KeySet  == {"a", "b"}
Prefixes == {<<>>, <<"x">>}         \* path prefixes / paths a caller passes

\* ------------------------------------------------------------------ values
\* A JS value: [t, n].  "obj" is a reference to plain object n, "proxy" a
\* reference to Proxy n, "num" the number n.
UndefV    == [t |-> "undefined", n |-> 0]
NullV     == [t |-> "null", n |-> 0]
FnV       == [t |-> "function", n |-> 0]
NumV(i)   == [t |-> "number", n |-> i]
ObjV(o)   == [t |-> "obj", n |-> o]
ProxyV(p) == [t |-> "proxy", n |-> p]

\* typeof v
Typeof(v) ==
    IF v.t \in {"obj", "proxy", "null"} THEN "object" ELSE v.t

\* A listener argument: an array (by identity), one listener, or nothing.
ArrArg(a) == [t |-> "arr", n |-> a]
OneArg(l) == [t |-> "one", n |-> l]
NoArg     == [t |-> "none", n |-> 0]

\* The hidden members of an object that was never traced.
NoHidden ==
    [traceIdentifier |-> -1, traceListeners |-> 0, path |-> <<"#">>,
     addTraceListener |-> 0]

NoParent == NullV

VARIABLES
    props,      \* props[o][k]: value of property k of plain object o
    frozen,     \* frozen[o]: Object.isFrozen(o)
    hid,        \* hid[o]: the hidden members defined on o
    proxies,    \* proxies[p]: the TraceHandler behind Proxy p and its target
    arrs,       \* arrs[a]: contents of listener array a
    sequence,   \* the module-level sequence counter
    roots,      \* what the caller got back from create / trace
    last,       \* the caller's last operation and what it observed
    steps,      \* number of caller operations so far
    calls,      \* number of create / trace calls so far
    pending,    \* listener calls made ready by an operation, not yet run
    paging      \* the page and the PagingBrowser calls in progress

vars ==
    <<props, frozen, hid, proxies, arrs, sequence, roots, last, steps, calls,
      pending, paging>>

\* The heap as one record, threaded through the operations.
Heap ==
    [props |-> props, hid |-> hid, proxies |-> proxies, arrs |-> arrs,
     sequence |-> sequence, notes |-> <<>>, err |-> "none"]

Throw(st, e) == [st EXCEPT !.err = e]

\* ---------------------------------------------------------- collaborators
\* Paths.create(prefix, relative): the canonical joined path.
Join(p, r) ==
    IF p = <<>> THEN r
    ELSE IF r = <<>> THEN p
    ELSE p \o <<".">> \o r

\* TraceListeners.asArray: identity on an array, a fresh one-element array
\* for a single listener, a fresh empty array for nothing.
AsArray(st, la) ==
    IF la.t = "arr" THEN [st |-> st, arr |-> la.n]
    ELSE [st  |-> [st EXCEPT !.arrs =
                      Append(@, IF la.t = "one" THEN <<la.n>> ELSE <<>>)],
          arr |-> Len(st.arrs) + 1]

\* The plain object behind a reference (a Proxy forwards to its target).
RECURSIVE Under(_, _)
Under(st, v) ==
    IF v.t = "obj" THEN v.n ELSE Under(st, st.proxies[v.n].target)

IsFrozenNever(st, v) == FALSE

\* Object.isFrozen(v): true of a non-object, forwarded by a Proxy.
IsFrozen(st, v) ==
    IF v.t \in {"obj", "proxy"} THEN frozen[Under(st, v)] ELSE TRUE

\* v[k] (the get trap passes ordinary properties through).
GetProp(st, v, k) == st.props[Under(st, v)][k]

\* ObjectPaths.recurse: one record per object-valued node reachable from
\* the root, each node once, the root first with no parent.
RECURSIVE RecurseInto(_, _, _, _, _, _)
RECURSIVE RecurseKeys(_, _, _, _, _)
RecurseInto(st, acc, path, value, parent, parentKey) ==
    IF \E i \in 1..Len(acc) : acc[i].value = value THEN acc
    ELSE RecurseKeys(st,
                     Append(acc, [path |-> path, value |-> value,
                                  parent |-> parent, parentKey |-> parentKey]),
                     path, value, 1)

RecurseKeys(st, acc, path, value, i) ==
    IF i > Len(Keys) THEN acc
    ELSE LET child == GetProp(st, value, Keys[i])
             acc1  == IF child.t \in {"obj", "proxy"}
                      THEN RecurseInto(st, acc, Join(path, <<Keys[i]>>),
                                       child, value, Keys[i])
                      ELSE acc
         IN  RecurseKeys(st, acc1, path, value, i + 1)

Recurse(st, root) == RecurseInto(st, <<>>, <<>>, root, NoParent, "")

\* The listeners asArray yields for an argument, as a sequence.
ListOf(st, la) ==
    IF la.t = "arr" THEN st.arrs[la.n]
    ELSE IF la.t = "one" THEN <<la.n>> ELSE <<>>

\* TraceHandler.addTraceListener of handler h: append to its list (the
\* array asArray makes for a single listener is dropped afterwards).
AddTraceListener(st, h, la) ==
    [st EXCEPT !.arrs[st.proxies[h].traceListeners] = @ \o ListOf(st, la)]

\* The handler notifies its listeners, in list order.  Each call is recorded
\* with what the listener is told and with what it finds at target[k].
Notify(st, h, kind, k, old, new) ==
    LET hd == st.proxies[h]
        ls == st.arrs[hd.traceListeners]
    IN  [st EXCEPT !.notes = @ \o
            [i \in 1..Len(ls) |->
                [listener |-> ls[i], kind |-> kind,
                 path |-> Join(hd.path, <<k>>), old |-> old, new |-> new,
                 seen |-> GetProp(st, hd.target, k)]]]

\* ----------------------------------------------------------- Proxies.trace
NextSequenceStuck(n) == n

\* sequence++ leaves the counter one higher.
NextSequence(n) == n + 1

TraceMembersOverwrite(st, o, path, tl) ==
    [st.hid[o] EXCEPT !.traceIdentifier = st.sequence,
                      !.traceListeners = tl, !.path = path]

\* The three private members, each defined only if the value has none.
TraceMembers(st, o, path, tl) ==
    LET hd == st.hid[o]
    IN  [hd EXCEPT
           !.traceIdentifier = IF @ = NoHidden.traceIdentifier
                               THEN st.sequence ELSE @,
           !.traceListeners  = IF @ = NoHidden.traceListeners THEN tl ELSE @,
           !.path            = IF @ = NoHidden.path THEN path ELSE @]

Trace(st, path, value, la) ==
    IF Typeof(value) # "object"
    THEN [st |-> Throw(st, "NotAnObject"), ret |-> UndefV]
    ELSE LET n  == AsArray(st, la)
             tl == n.arr
         IN  IF IsFrozen(n.st, value)
             THEN [st |-> st, ret |-> value]  \* nothing keeps asArray's array
             ELSE LET o  == Under(n.st, value)
                      h  == Len(n.st.proxies) + 1
                      s1 == [n.st EXCEPT
                               !.proxies = Append(@,
                                   [path |-> path, traceListeners |-> tl,
                                    target |-> value]),
                               !.hid[o] = TraceMembers(n.st, o, path, tl),
                               !.sequence = NextSequence(@)]
                      s2 == IF s1.hid[o].addTraceListener
                                 # NoHidden.addTraceListener
                            THEN AddTraceListener(s1,
                                     s1.hid[o].addTraceListener, ArrArg(tl))
                            ELSE [s1 EXCEPT !.hid[o].addTraceListener = h]
                  IN  [st |-> s2, ret |-> ProxyV(h)]

\* ------------------------------------------- Proxies.create and the traps
EntryPathNoPrefix(pathPrefix, relative) == relative

\* The path create gives a node: the prefix applies only when not empty.
EntryPath(pathPrefix, relative) ==
    IF pathPrefix # <<>> THEN Join(pathPrefix, relative) ELSE relative

RECURSIVE Create(_, _, _, _)
RECURSIVE TraceEntries(_, _, _, _, _, _)
RECURSIVE SetProp(_, _, _, _)
RECURSIVE HandlerSet(_, _, _, _)

\* ref[k] = v in strict code (a class body is strict).
SetProp(st, ref, k, v) ==
    IF ref.t = "proxy" THEN HandlerSet(st, ref.n, k, v)
    ELSE IF frozen[ref.n] THEN Throw(st, "TypeError")
    ELSE [st EXCEPT !.props[ref.n][k] = v]

\* A set trap that would call the listeners before it writes.
HandlerSetNotifyFirst(st, h, k, v) ==
    LET hd == st.proxies[h]
        s1 == Notify(st, h, "set", k, GetProp(st, hd.target, k), v)
    IN  SetProp(s1, hd.target, k, v)

\* TraceHandler.set: trace a newly assigned object value, perform the
\* mutation on the target, notify.
HandlerSet(st, h, k, v) ==
    LET hd == st.proxies[h]
        c  == IF v.t \in {"obj", "proxy"}
              THEN Create(st, v, ArrArg(hd.traceListeners),
                          Join(hd.path, <<k>>))
              ELSE [st |-> st, ret |-> v]
    IN  IF c.st.err # "none" THEN c.st
        ELSE LET old == GetProp(c.st, hd.target, k)
                 s1  == SetProp(c.st, hd.target, k, c.ret)
             IN  IF s1.err # "none" THEN s1
                 ELSE Notify(s1, h, "set", k, old, c.ret)

TraceEntries(st, entries, i, tl, pathPrefix, root) ==
    IF i > Len(entries) THEN [st |-> st, ret |-> root]
    ELSE LET e    == entries[i]
             path == EntryPath(pathPrefix, e.path)
             r    == Trace(st, path, e.value, ArrArg(tl))
         IN  IF r.st.err # "none" THEN [st |-> r.st, ret |-> UndefV]
             ELSE IF e.parent # NoParent
             THEN LET s1 == SetProp(r.st, e.parent, e.parentKey, r.ret)
                  IN  IF s1.err # "none" THEN [st |-> s1, ret |-> UndefV]
                      ELSE TraceEntries(s1, entries, i + 1, tl,
                                        pathPrefix, root)
             ELSE TraceEntries(r.st, entries, i + 1, tl, pathPrefix, r.ret)

Create(st, target, la, pathPrefix) ==
    IF Typeof(target) # "object"
    THEN [st |-> Throw(st, "NotAnObject"), ret |-> UndefV]
    ELSE LET n == AsArray(st, la)
         IN  TraceEntries(n.st, Recurse(n.st, target), 1, n.arr,
                          pathPrefix, NullV)

\* TraceHandler.deleteProperty, and delete ref[k].
RECURSIVE DeleteProp(_, _, _)
DeleteProp(st, ref, k) ==
    IF ref.t = "proxy"
    THEN LET hd  == st.proxies[ref.n]
             old == GetProp(st, hd.target, k)
             s1  == DeleteProp(st, hd.target, k)
         IN  IF s1.err # "none" THEN s1
             ELSE Notify(s1, ref.n, "delete", k, old, UndefV)
    ELSE IF frozen[ref.n] THEN Throw(st, "TypeError")
    ELSE [st EXCEPT !.props[ref.n][k] = UndefV]

\* ------------------------------------------------------------ the caller
ObjRefs == {ObjV(o) : o \in Obj}

\* The objects a reference leads to by reading properties.
RECURSIVE ReachFrom(_, _)
ReachFrom(st, seen) ==
    LET next == seen \cup
                {GetProp(st, v, k) : v \in seen, k \in KeySet}
        objs == {v \in next : v.t \in {"obj", "proxy"}}
    IN  IF objs = seen THEN seen ELSE ReachFrom(st, objs)

Reach(st, v) == ReachFrom(st, {v})

\* What the caller remembers of a value it obtained: returned by create or
\* by trace, or read back from parent[key] after assigning a fresh object.
Got(by, root, parent, key) ==
    [by |-> by, root |-> root, parent |-> parent, key |-> key]

\* The references the caller holds to traced graphs: what create and trace
\* returned, and what reading properties from there leads to.
Held ==
    UNION {Reach(Heap, c.root) : c \in {d \in roots : d.root.t \in {"obj", "proxy"}}}

\* Storing v under ref keeps the graph acyclic.
NoCycle(st, ref, v) ==
    v.t \in {"obj", "proxy"} =>
        Under(st, ref) \notin {Under(st, w) : w \in Reach(st, v)}

\* A fresh plain object: never traced and referenced by nobody.
Fresh(o) ==
    /\ hid[o] = NoHidden
    /\ \A q \in Obj, k \in KeySet : props[q][k] # ObjV(o)

\* The plain objects no property refers to: the tops of the caller's graphs.
Tops ==
    {ObjV(o) : o \in {q \in Obj :
        \A r \in Obj, k \in KeySet : props[r][k] # ObjV(q)}}

\* What the caller may pass as listeners.
ListenerArgs ==
    {NoArg, OneArg(3)} \cup {ArrArg(a) : a \in 1..Len(arrs)}

\* The calls that differ only in an argument the code never looks at are
\* tried once: a rejected value with one listener list and one prefix, the
\* omitted listener argument with no prefix.
PlainCall(value, la, path) ==
    /\ Typeof(value) # "object" => la = ArrArg(1) /\ path = <<"x">>
    /\ la = NoArg => value.t = "obj" /\ path \in {<<>>}

\* A dispatch that would leave the calls for later.
DispatchDeferred(queue, st) == [delivered |-> queue, pending |-> st.notes]

\* The handler's dispatch: the listeners run in-line, inside the operation
\* that notifies them, so nothing is left when it returns.
Dispatch(queue, st) == [delivered |-> queue \o st.notes, pending |-> <<>>]

\* No PagingBrowser is in use.
NoPaging == [pc |-> "none"]

WithinBounds(st) ==
    /\ Len(st.proxies) <= MaxProxies
    /\ Len(st.arrs) <= MaxArrs
    /\ \A a \in 1..Len(st.arrs) : Len(st.arrs[a]) <= MaxListLen

Commit(st) ==
    /\ WithinBounds(st)
    /\ props' = st.props
    /\ hid' = st.hid
    /\ proxies' = st.proxies
    /\ arrs' = st.arrs
    /\ sequence' = st.sequence
    /\ steps' = steps + 1
    /\ pending' = Dispatch(pending, st).pending
    /\ UNCHANGED <<frozen, paging>>

Op(op, ref, key, val, path, la, ret, st) ==
    [op |-> op, ref |-> ref, key |-> key, val |-> val, path |-> path,
     la |-> la, ret |-> ret, err |-> st.err,
     notes |-> Dispatch(pending, st).delivered]

\* ----------------------------------------------------------------- shapes
Shape(s) ==
    CASE s = 1 -> [o \in Obj |->      \* chain  {a: {a: {b: 1}, b: 1}, b: 1}
              [k \in KeySet |->
                 IF k = "a" /\ o < 3 THEN ObjV(o + 1) ELSE NumV(1)]]
      [] s = 2 -> [o \in Obj |->      \* shared {a: s, b: s}; 3 is apart
              [k \in KeySet |->
                 IF o = 1 THEN ObjV(2)
                 ELSE IF k = "a" THEN UndefV ELSE NumV(1)]]
      [] s = 3 -> [o \in Obj |->      \* {a: {b: 1}}; 3 is apart
              [k \in KeySet |->
                 IF o = 1 /\ k = "a" THEN ObjV(2)
                 ELSE IF o = 2 /\ k = "b" THEN NumV(1)
                 ELSE UndefV]]

\* The graphs a run starts from: a shape and the object frozen in it (0 for
\* none): the chain with any node frozen, the shared graph unfrozen, the
\* example graph with its leaf or the separate object frozen.
Starts ==
    ({1} \X {0, 1, 2, 3}) \cup ({2} \X {0}) \cup ({3} \X {0, 2, 3})

Init ==
    /\ \E g \in Starts :
          /\ props = Shape(g[1])
          /\ frozen = [o \in Obj |-> o = g[2]]
    /\ hid = [o \in Obj |-> NoHidden]
    /\ proxies = <<>>
    /\ arrs = << <<1, 2>> >>
    /\ sequence = 0
    /\ roots = {}
    /\ pending = <<>>
    /\ paging = NoPaging
    /\ last = Op("init", UndefV, "", UndefV, <<>>, NoArg, UndefV, Heap)
    /\ steps = 0
    /\ calls = 0

\* ----------------------------------------------------------------- actions
\* Proxies.create(target, traceListeners, {pathPrefix})
DoCreate ==
    \E target \in Tops \cup Held \cup {NumV(1), UndefV, FnV},
       la \in ListenerArgs, pathPrefix \in Prefixes :
        LET r == Create(Heap, target, la, pathPrefix)
        IN  /\ steps < MaxSteps
            /\ calls < MaxCalls
            /\ calls' = calls + 1
            /\ PlainCall(target, la, pathPrefix)
            /\ Commit(r.st)
            /\ last' = Op("create", target, "", UndefV, pathPrefix, la,
                          r.ret, r.st)
            /\ roots' = IF r.st.err = "none"
                        THEN roots \cup {Got("create", r.ret, UndefV, "")}
                        ELSE roots

\* Proxies.trace(path, value, traceListeners)
DoTrace ==
    \E value \in ObjRefs \cup Held \cup {NumV(1), UndefV, FnV, NullV},
       la \in ListenerArgs, path \in Prefixes \ {<<>>} :
        LET r == Trace(Heap, path, value, la)
        IN  /\ steps < MaxSteps
            /\ calls < MaxCalls
            /\ calls' = calls + 1
            /\ PlainCall(value, la, path)
            /\ Commit(r.st)
            /\ last' = Op("trace", value, "", UndefV, path, la, r.ret, r.st)
            /\ roots' = IF r.st.err = "none"
                        THEN roots \cup {Got("trace", r.ret, UndefV, "")}
                        ELSE roots

\* ref[k] = v by the caller
DoSet ==
    \E ref \in Held, k \in KeySet,
       v \in {NumV(2)} \cup {ObjV(o) : o \in {q \in Obj : Fresh(q)}} :
        LET st == SetProp(Heap, ref, k, v)
        IN  /\ steps < MaxSteps
            /\ NoCycle(Heap, ref, v)
            /\ Commit(st)
            /\ last' = Op("set", ref, k, v, <<>>, NoArg, UndefV, st)
            /\ roots' = IF st.err = "none" /\ v.t = "obj"
                        THEN roots \cup {Got("assign", GetProp(st, ref, k),
                                             ref, k)}
                        ELSE roots
            /\ UNCHANGED calls

\* delete ref[k] by the caller
DoDelete ==
    \E ref \in Held, k \in KeySet :
        LET st == DeleteProp(Heap, ref, k)
        IN  /\ steps < MaxSteps
            /\ Commit(st)
            /\ last' = Op("delete", ref, k, UndefV, <<>>, NoArg, UndefV, st)
            /\ UNCHANGED <<roots, calls>>

\* ref.addTraceListener(listener) by the caller
DoAddTraceListener ==
    \E ref \in Held, la \in {OneArg(3)} :
        LET o  == Under(Heap, ref)
            st == AddTraceListener(Heap, hid[o].addTraceListener, la)
        IN  /\ steps < MaxSteps
            /\ hid[o].addTraceListener # NoHidden.addTraceListener
            /\ Commit(st)
            /\ last' = Op("addTraceListener", ref, "", UndefV, <<>>, la,
                          UndefV, st)
            /\ UNCHANGED <<roots, calls>>

Next ==
    \/ DoCreate
    \/ DoTrace
    \/ DoSet
    \/ DoDelete
    \/ DoAddTraceListener

Spec == Init /\ [][Next]_vars

\* ------------------------------------------------------------ PagingBrowser
\* Model of web/js/electron/capture/pagination/PagingBrowser.js.  Lengths
\* are whole numbers of tenths of a pixel, so that 0.9 of a whole-pixel
\* height and the fractional scroll positions it leads to are exact.
Unit == 10

\* NaN, which 0 / 0 yields: NaN >= 100 is false, like -1 >= 100.
NaN == 0 - 1

MaxResizes == 1     \* resizes of the page in one run

ViewportHeights == {0, 5 * Unit, 10 * Unit}      \* window.innerHeight
ScrollHeights   == {0, 10 * Unit, 25 * Unit, 200 * Unit}   \* scrollHeight
ViewportWidth   == 8 * Unit
ScrollWidth     == 12 * Unit
StartYs         == {0, 195, 1885}                \* window.scrollY at the start
StartX          == 2 * Unit

Min(a, b) == IF a <= b THEN a ELSE b

Max(a, b) == IF a >= b THEN a ELSE b

\* The least whole number not below n / d (d > 0).
CeilDiv(n, d) == 0 - ((0 - n) \div d)

Point(x, y) == [x |-> x, y |-> y]

Dimensions(width, height) == [width |-> width, height |-> height]

PagingState(scrollPosition, scrollBox, viewportBox) ==
    [scrollPosition |-> scrollPosition, scrollBox |-> scrollBox,
     viewportBox |-> viewportBox]

ComputeMaxScrollPositionsNoViewport(state) ==
    Point(state.scrollBox.width, state.scrollBox.height)

ComputeMaxScrollPositions(state) ==
    Point(state.scrollBox.width - state.viewportBox.width,
          state.scrollBox.height - state.viewportBox.height)

ComputePageDownNoAdvance(state) ==
    Point(0, Min(state.scrollPosition.y, ComputeMaxScrollPositions(state).y))

ComputePageDownScrollPosition(state) ==
    LET maxScrollPositions == ComputeMaxScrollPositions(state)
    IN  Point(0, Min(state.scrollPosition.y
                        + (state.viewportBox.height * 9) \div Unit,
                     maxScrollPositions.y))

\* A percentage that would round down.
PercFloor(n, d) ==
    IF d = 0 THEN (IF CeilDiv(n, Unit) = 0 THEN NaN ELSE 100)
    ELSE Min((100 * CeilDiv(n, Unit) * Unit) \div d, 100)

\* Math.ceil(Math.min(100 * (Math.ceil(n) / d), 100)), n and d in tenths
\* and not negative: Math.ceil(n) is a whole number of pixels; x / 0 is
\* Infinity for x > 0.
Perc(n, d) ==
    IF d = 0 THEN (IF CeilDiv(n, Unit) = 0 THEN NaN ELSE 100)
    ELSE Min(CeilDiv(100 * CeilDiv(n, Unit) * Unit, d), 100)

VisualScrollPercentage(state) ==
    Dimensions(Perc(state.scrollPosition.x + state.viewportBox.width,
                    state.scrollBox.width),
               Perc(state.scrollPosition.y + state.viewportBox.height,
                    state.scrollBox.height))

FullyPaginated(state) == VisualScrollPercentage(state).height >= 100

\* The scroll offsets a page can be at: from 0 to the scroll box less the
\* viewport (window.scrollX, window.scrollY).
Clamp(page, scrollPosition) ==
    Point(Max(0, Min(scrollPosition.x,
                     page.scrollBox.width - page.viewportBox.width)),
          Max(0, Min(scrollPosition.y,
                     page.scrollBox.height - page.viewportBox.height)))

\* scrollToPosition: the browser is told to scroll to the given position,
\* and goes as near to it as the page allows.
ScrollToPosition(page, scrollPosition) ==
    [page EXCEPT !.scrollPosition = Clamp(page, scrollPosition)]

\* The variables of the Proxies model, which paging leaves alone.
tracing ==
    <<props, frozen, hid, proxies, arrs, sequence, roots, last, steps, calls,
      pending>>

\* The pages a run may start from or be resized to.
Pages ==
    {PagingState(Point(StartX, t[1]), Dimensions(ScrollWidth, t[2]),
                 Dimensions(ViewportWidth, t[3])) :
        t \in {u \in StartYs \X ScrollHeights \X ViewportHeights :
                  u[1] <= Max(0, u[2] - u[3])}}

NotAsked == [asked |-> FALSE]

PagingInit ==
    /\ props = Shape(3)
    /\ frozen = [o \in Obj |-> FALSE]
    /\ hid = [o \in Obj |-> NoHidden]
    /\ proxies = <<>>
    /\ arrs = << <<1, 2>> >>
    /\ sequence = 0
    /\ roots = {}
    /\ pending = <<>>
    /\ last = Op("init", UndefV, "", UndefV, <<>>, NoArg, UndefV, Heap)
    /\ steps = 0
    /\ calls = 0
    /\ \E page \in Pages, fixed \in BOOLEAN :
          paging = [pc |-> "idle", page |-> page, state |-> page,
                    scrolledTo |-> page.scrollPosition, answer |-> NotAsked,
                    fixed |-> fixed, resizes |-> 0]

\* pageDown, up to its await: let state = await this.state()
PageDownState ==
    /\ paging.pc = "idle"
    /\ paging' = [paging EXCEPT !.pc = "scroll", !.state = paging.page]
    /\ UNCHANGED tracing

\* pageDown, the rest: compute the new position and scroll to it.
PageDownScroll ==
    /\ paging.pc = "scroll"
    /\ LET newScrollPosition == ComputePageDownScrollPosition(paging.state)
       IN  paging' = [paging EXCEPT
                        !.pc = "idle",
                        !.scrolledTo = newScrollPosition,
                        !.page = ScrollToPosition(@, newScrollPosition)]
    /\ UNCHANGED tracing

\* fullyPaginated(await this.state())
DoFullyPaginated ==
    /\ paging.pc \in {"idle", "scroll"}
    /\ paging' = [paging EXCEPT
                    !.answer = [asked |-> TRUE, state |-> paging.page,
                                value |-> FullyPaginated(paging.page)]]
    /\ UNCHANGED tracing

\* The page reloads or is resized, also between the steps of a pageDown.
Resize ==
    /\ paging.pc \in {"idle", "scroll"}
    /\ ~paging.fixed
    /\ paging.resizes < MaxResizes
    /\ \E sh \in ScrollHeights, vh \in ViewportHeights :
          /\ <<sh, vh>> # <<paging.page.scrollBox.height,
                            paging.page.viewportBox.height>>
          /\ LET resized == [paging.page EXCEPT
                                 !.scrollBox.height = sh,
                                 !.viewportBox.height = vh]
             IN  paging' = [paging EXCEPT
                              !.page = ScrollToPosition(resized,
                                           resized.scrollPosition),
                              !.resizes = @ + 1]
    /\ UNCHANGED tracing

PagingNext ==
    \/ PageDownState
    \/ PageDownScroll
    \/ DoFullyPaginated
    \/ Resize

\* A caller that keeps paging down: a pageDown that has been started ends,
\* and another one follows.
PagingSpec ==
    /\ PagingInit
    /\ [][PagingNext]_vars
    /\ WF_vars(PageDownState)
    /\ WF_vars(PageDownScroll)

\* ------------------------------------------------------------- properties
Listeners(ls) == {ls[i] : i \in 1..Len(ls)}

Mutated == last.op \in {"set", "delete"} /\ last.err = "none"

\* Proxies p and q wrap the same plain object.
SameNode(p, q) == Under(Heap, ProxyV(p)) = Under(Heap, ProxyV(q))

\* C1: after one create of an acyclic graph with listeners L1..Ln, a write
\* or delete through any node of the returned graph calls L1..Ln once each,
\* in that order, each with the node's path joined with the mutated key.
C1_EachListenerOnceInOrder ==
    \A c \in roots :
        (/\ c.by = "create"
         /\ c.root.t = "proxy"
         /\ calls = 1
         /\ Mutated
         /\ last.ref \in Reach(Heap, c.root))
        => LET ls   == arrs[proxies[c.root.n].traceListeners]
               node == hid[Under(Heap, last.ref)].path
           IN  /\ Len(last.notes) = Len(ls)
               /\ \A i \in 1..Len(ls) :
                    /\ last.notes[i].listener = ls[i]
                    /\ last.notes[i].path = Join(node, <<last.key>>)

\* The wrapper Proxy p is one that a trace call returned to the caller.
Returned(p) == Got("trace", ProxyV(p), UndefV, "") \in roots

\* C2: once a node was traced with listeners A and again with listeners B,
\* a mutation through either returned wrapper notifies every listener of A
\* and of B (the lists the two calls were given).
C2_BothListenerSetsNotified ==
    (Mutated /\ last.ref.t = "proxy" /\ Returned(last.ref.n))
    => \A q \in 1..Len(proxies) :
          (Returned(q) /\ SameNode(q, last.ref.n))
          => \A l \in Listeners(arrs[proxies[q].traceListeners]) :
                \E i \in 1..Len(last.notes) : last.notes[i].listener = l

\* C3: the hidden identifier, path and listener-list reference of a node are
\* those of its first trace (taken from that call's handler and from the
\* sequence at that call), and no later step changes any of them.
C3_HiddenMembersKept ==
    [][\A o \in Obj :
          /\ hid[o].traceIdentifier # NoHidden.traceIdentifier
             => hid'[o].traceIdentifier = hid[o].traceIdentifier
          /\ hid[o].traceListeners # NoHidden.traceListeners
             => hid'[o].traceListeners = hid[o].traceListeners
          /\ hid[o].path # NoHidden.path => hid'[o].path = hid[o].path
          /\ (hid[o] = NoHidden /\ hid'[o] # NoHidden)
             => /\ hid'[o].traceIdentifier \in sequence..(sequence' - 1)
                /\ LET h == hid'[o].addTraceListener
                   IN  /\ h \in (Len(proxies) + 1)..Len(proxies')
                       /\ proxies'[h].path = hid'[o].path
                       /\ proxies'[h].traceListeners = hid'[o].traceListeners
       ]_vars

\* A node traced twice, the second time with another path and another list,
\* still carrying what the first trace gave it.
C3_Retraced ==
    \E p, q \in 1..Len(proxies) :
        /\ p < q
        /\ SameNode(p, q)
        /\ proxies[q].path # proxies[p].path
        /\ proxies[q].traceListeners # proxies[p].traceListeners
        /\ hid[Under(Heap, ProxyV(p))].path = proxies[p].path
        /\ hid[Under(Heap, ProxyV(p))].traceListeners
               = proxies[p].traceListeners

\* C4: create or trace of a value that is not an object (a primitive,
\* undefined, a function, null) fails with the not-an-object error and has
\* changed nothing: no hidden member, no reference, no listener, no sequence.
C4_NonObjectRejected ==
    [][(/\ steps' = steps + 1
        /\ last'.op \in {"create", "trace"}
        /\ last'.ref.t \notin {"obj", "proxy"})
       => /\ last'.err = "NotAnObject"
          /\ hid' = hid /\ props' = props /\ proxies' = proxies
          /\ arrs' = arrs /\ sequence' = sequence
      ]_vars

\* C5: trace of a frozen object returns the same reference without error,
\* leaves it with no hidden member and no Proxy, and no later write or
\* delete on it reaches a listener.
C5_FrozenPassedThrough ==
    /\ \A o \in Obj :
          frozen[o]
          => /\ hid[o] = NoHidden
             /\ \A p \in 1..Len(proxies) : Under(Heap, ProxyV(p)) # o
    /\ (last.op = "trace" /\ last.ref.t = "obj" /\ frozen[last.ref.n])
       => last.ret = last.ref /\ last.err = "none" /\ last.notes = <<>>
    /\ (last.op \in {"set", "delete"} /\ last.ref.t = "obj"
        /\ frozen[last.ref.n])
       => last.notes = <<>>

\* A write or delete attempted on a frozen object that trace had returned.
C5_FrozenTracedThenMutated ==
    /\ last.op \in {"set", "delete"}
    /\ last.ref.t = "obj"
    /\ frozen[last.ref.n]
    /\ Got("trace", last.ref, UndefV, "") \in roots

\* C6: create on a graph holding a frozen node (the root or below it, with
\* or without children) returns without raising, leaves the frozen nodes
\* untraced and traces every other node.
C6_CreateOverFrozenCompletes ==
    (/\ last.op = "create"
     /\ last.ref.t \in {"obj", "proxy"}
     /\ \E v \in Reach(Heap, last.ref) : IsFrozen(Heap, v))
    => /\ last.err = "none"
       /\ \A v \in Reach(Heap, last.ref) :
             LET o == Under(Heap, v)
             IN  IF frozen[o] THEN hid[o] = NoHidden ELSE hid[o] # NoHidden

\* C7: a fresh plain object assigned to property k of an already-traced
\* node with path p is traced with path join(p, k): a later write or delete
\* of one of its properties notifies the listeners registered on the parent.
C7_AssignedObjectTraced ==
    \A c \in roots :
        (/\ c.by = "assign"
         /\ hid[Under(Heap, c.parent)] # NoHidden
         /\ ~IsFrozen(Heap, c.root)
         /\ Mutated
         /\ last.ref = c.root)
        => LET pn == hid[Under(Heap, c.parent)]
               ls == arrs[pn.traceListeners]
           IN  /\ hid[Under(Heap, c.root)].path = Join(pn.path, <<c.key>>)
               /\ \A l \in Listeners(ls) :
                     \E i \in 1..Len(last.notes) :
                        /\ last.notes[i].listener = l
                        /\ last.notes[i].path
                             = Join(Join(pn.path, <<c.key>>), <<last.key>>)

\* C8: when create has returned, no raw reference to a non-frozen object is
\* reachable from the returned root, shared objects included.
C8_NoRawObjectReachable ==
    (last.op = "create" /\ last.err = "none"
     /\ last.ret.t \in {"obj", "proxy"})
    => \A v \in Reach(Heap, last.ret) : v.t = "obj" => frozen[v.n]

Traced(o) == hid[o].traceIdentifier # NoHidden.traceIdentifier

\* C9: distinct traced objects carry distinct trace identifiers, whatever
\* calls traced them, and no step lowers the sequence counter.
C9_UniqueIdentifiers ==
    [][/\ sequence' >= sequence
       /\ \A o1, o2 \in Obj :
             (/\ o1 # o2
              /\ hid'[o1].traceIdentifier # NoHidden.traceIdentifier
              /\ hid'[o2].traceIdentifier # NoHidden.traceIdentifier)
             => hid'[o1].traceIdentifier # hid'[o2].traceIdentifier
      ]_vars

\* Objects traced by two separate calls.
C9_TracedByTwoCalls ==
    /\ calls = 2
    /\ last.op \in {"create", "trace"}
    /\ last.err = "none"
    /\ \E o1, o2 \in Obj :
          /\ Traced(o1) /\ Traced(o2)
          /\ hid[o1].traceIdentifier < hid[o2].traceIdentifier
          /\ hid[o2].traceIdentifier = sequence - 1

IsPrefix(p, q) == Len(p) <= Len(q) /\ SubSeq(q, 1, Len(p)) = p

\* A step that is a create call which returned.
CreateStep ==
    /\ steps' = steps + 1
    /\ last'.op = "create"
    /\ last'.err = "none"
    /\ last'.ref.t \in {"obj", "proxy"}

\* A step that is a write or delete through the wrapper of a first trace.
FirstWrapperMutation ==
    /\ steps' = steps + 1
    /\ last'.op \in {"set", "delete"}
    /\ last'.err = "none"
    /\ last'.ref.t = "proxy"
    /\ proxies[last'.ref.n].target.t = "obj"
    /\ hid[proxies[last'.ref.n].target.n].addTraceListener = last'.ref.n

\* C10 as claimed: every non-frozen node create walks has the hidden path
\* join(pathPrefix, relative path), or the relative path when the prefix is
\* empty, and a notification's path begins with the node's hidden path.
C10_PathIsPrefixedPath ==
    [][/\ CreateStep
          => \A i \in 1..Len(Recurse(Heap, last'.ref)) :
                LET e == Recurse(Heap, last'.ref)[i]
                    o == Under(Heap, e.value)
                IN  ~frozen[o]
                    => hid'[o].path = IF last'.path = <<>> THEN e.path
                                      ELSE Join(last'.path, e.path)
       /\ (steps' = steps + 1 /\ last'.op \in {"set", "delete"}
           /\ last'.err = "none" /\ last'.ref.t = "proxy")
          => \A i \in 1..Len(last'.notes) :
                IsPrefix(hid[Under(Heap, last'.ref)].path,
                         last'.notes[i].path)
      ]_vars

\* C10 amended: the same for every node that create traces for the first
\* time, and for notifications sent through the wrapper of a first trace.
C10_FirstTracePath ==
    [][/\ CreateStep
          => \A i \in 1..Len(Recurse(Heap, last'.ref)) :
                LET e == Recurse(Heap, last'.ref)[i]
                    o == Under(Heap, e.value)
                IN  (~frozen[o] /\ hid[o] = NoHidden)
                    => /\ hid'[o].path = IF last'.path = <<>> THEN e.path
                                         ELSE Join(last'.path, e.path)
                       /\ proxies'[hid'[o].addTraceListener].path
                            = hid'[o].path
       /\ FirstWrapperMutation
          => \A i \in 1..Len(last'.notes) :
                IsPrefix(hid[Under(Heap, last'.ref)].path,
                         last'.notes[i].path)
      ]_vars

\* A create with a prefix has traced a child for the first time, and a
\* later write through the child's wrapper was notified under that path.
C10_PrefixedChildNotified ==
    /\ last.op = "set"
    /\ last.ref.t = "proxy"
    /\ proxies[last.ref.n].path = <<"x", ".", "a">>
    /\ hid[Under(Heap, last.ref)].path = <<"x", ".", "a">>
    /\ hid[Under(Heap, last.ref)].addTraceListener = last.ref.n
    /\ Got("create", ProxyV(1), UndefV, "") \in roots
    /\ last.notes # <<>>

\* How often listener l occurs in a listener list, and in notifications.
Registered(ls, l) == Cardinality({i \in 1..Len(ls) : ls[i] = l})

Invoked(notes, l) == Cardinality({i \in 1..Len(notes) : notes[i].listener = l})

AllListeners == UNION {Listeners(arrs[a]) : a \in 1..Len(arrs)} \cup {3}

\* C11: addTraceListener on a traced node appends the given listener to the
\* end of the node's listener list, keeping the earlier entries in place and
\* any duplicate; a later write or delete of the node calls each listener as
\* many times as it is in the node's list.
C11_InvokedAsOftenAsRegistered ==
    [][/\ (steps' = steps + 1 /\ last'.op = "addTraceListener")
          => LET a == hid[Under(Heap, last'.ref)].traceListeners
             IN  arrs'[a] = arrs[a] \o ListOf(Heap, last'.la)
       /\ (/\ steps' = steps + 1
           /\ last'.op \in {"set", "delete"}
           /\ last'.err = "none"
           /\ hid[Under(Heap, last'.ref)].addTraceListener
                  # NoHidden.addTraceListener)
          => LET a == hid[Under(Heap, last'.ref)].traceListeners
             IN  \A l \in AllListeners :
                    Invoked(last'.notes, l) = Registered(arrs'[a], l)
      ]_vars

\* C12: an object has at most one TraceHandler and one Proxy over it: no two
\* Proxy/TraceHandler pairs lead to the same object, and tracing an object
\* that already has addTraceListener makes no new pair.
C12_OneHandlerPerObject ==
    \A p, q \in 1..Len(proxies) : SameNode(p, q) => p = q

\* The same JS value, a Proxy counting as the object it wraps.
SameValue(ps, a, b) ==
    IF a.t \in {"obj", "proxy"}
    THEN b.t \in {"obj", "proxy"} /\ Under(ps, a) = Under(ps, b)
    ELSE a = b

\* The Proxies a reference passes through down to the plain object.
RECURSIVE Layers(_, _)
Layers(st, v) ==
    IF v.t = "proxy" THEN {v.n} \cup Layers(st, st.proxies[v.n].target)
    ELSE {}

\* A step that is a write or delete through a wrapper, which returned.
WrapperMutation ==
    /\ steps' = steps + 1
    /\ last'.op \in {"set", "delete"}
    /\ last'.err = "none"
    /\ last'.ref.t = "proxy"

\* Notification n tells of operation kind at path, from old to new, and
\* was delivered when the property held now.
Describes(n, kind, path, old, new, now, ps) ==
    /\ n.kind = kind
    /\ n.path = path
    /\ n.old = old
    /\ kind = "set" => SameValue(ps, n.new, new)
    /\ n.seen = now

ExamplePath == <<"a", ".", "b">>

\* root = {a: {b: 1}} as create(root, L) with no prefix has left it.
ExampleCreated ==
    /\ last.op = "create" /\ last.err = "none"
    /\ last.ref = ObjV(1) /\ last.la = OneArg(3) /\ last.path = <<>>
    /\ calls = 1 /\ steps = 1
    /\ props[1] = [a |-> ProxyV(2), b |-> UndefV]
    /\ props[2] = [a |-> UndefV, b |-> NumV(1)]

ExampleSetNote ==
    [listener |-> 3, kind |-> "set", path |-> ExamplePath,
     old |-> NumV(1), new |-> NumV(2), seen |-> NumV(2)]

ExampleDeleteNote ==
    [listener |-> 3, kind |-> "delete", path |-> ExamplePath,
     old |-> NumV(2), new |-> UndefV, seen |-> UndefV]

\* C13: a write of v to key k through a wrapped node that held u at k calls
\* the listeners with kind set, the node's path joined with k, old value u
\* and new value v; a delete calls them with kind delete and that path; the
\* object already shows the mutation when a listener is called.  For
\* root = {a: {b: 1}}, one listener and no prefix, root.a.b = 2 and then
\* delete root.a.b give (set, a.b, 1, 2) and then (delete, a.b), one each.
C13_NotificationIdentifiesOperation ==
    [][/\ WrapperMutation
          => LET o   == Under(Heap, last'.ref)
                 k   == last'.key
                 now == props'[o][k]
             IN  /\ IF last'.op = "set"
                    THEN SameValue([proxies |-> proxies'], now, last'.val)
                    ELSE now = UndefV
                 /\ \A h \in Layers(Heap, last'.ref) :
                       arrs[proxies[h].traceListeners] # <<>>
                       => \E i \in 1..Len(last'.notes) :
                             Describes(last'.notes[i], last'.op,
                                       Join(proxies[h].path, <<k>>),
                                       props[o][k], last'.val, now,
                                       [proxies |-> proxies'])
                 /\ last'.val.t \notin {"obj", "proxy"}
                    => \A i \in 1..Len(last'.notes) :
                          \E h \in Layers(Heap, last'.ref) :
                             Describes(last'.notes[i], last'.op,
                                       Join(proxies[h].path, <<k>>),
                                       props[o][k], last'.val, now,
                                       [proxies |-> proxies'])
       /\ (/\ ExampleCreated
           /\ steps' = steps + 1
           /\ last'.op = "set" /\ last'.ref = ProxyV(2)
           /\ last'.key = "b" /\ last'.val = NumV(2))
          => last'.notes = <<ExampleSetNote>>
       /\ (/\ last.op = "set" /\ last.notes = <<ExampleSetNote>>
           /\ steps' = steps + 1
           /\ last'.op = "delete" /\ last'.ref = last.ref
           /\ last'.key = "b")
          => last'.notes = <<ExampleDeleteNote>>
      ]_vars

\* The example has run to its end: the write and then the delete of a.b.
C13_ExampleSetThenDelete ==
    /\ steps = 3 /\ calls = 1
    /\ last.op = "delete" /\ last.ref = ProxyV(2) /\ last.key = "b"
    /\ last.notes = <<ExampleDeleteNote>>
    /\ Got("create", ProxyV(1), UndefV, "") \in roots

C15_CreateNotifiesNobody ==
    last.notes # <<>>
    => /\ last.op \in {"set", "delete"}
       /\ last.ref.t = "proxy"

\* A step taken on the graph that the one create call so far has returned.
InCreatedGraph(ref) ==
    /\ calls = 1
    /\ \E c \in roots :
          /\ c.by = "create"
          /\ c.root.t = "proxy"
          /\ ref \in Reach(Heap, c.root)

\* The listener array of the created graph's root.
RootList == arrs[proxies[1].traceListeners]

\* C16: the nodes one create call wraps all hold one listener array, the
\* caller's own when it passed an array; a listener added on any node of
\* the graph is added to that array, and a later write or delete of any
\* node of the graph calls every listener in it.
C16_GraphSharesListenerList ==
    [][/\ (CreateStep /\ calls = 0 /\ last'.ret.t = "proxy")
          => /\ \A h \in 1..Len(proxies') :
                   proxies'[h].traceListeners = proxies'[1].traceListeners
             /\ \A o \in Obj :
                   hid'[o] # NoHidden
                   => hid'[o].traceListeners = proxies'[1].traceListeners
             /\ last'.la.t = "arr"
                => proxies'[1].traceListeners = last'.la.n
       /\ (/\ steps' = steps + 1
           /\ last'.op = "addTraceListener"
           /\ InCreatedGraph(last'.ref))
          => arrs'[proxies[1].traceListeners]
                = RootList \o ListOf(Heap, last'.la)
       /\ (/\ steps' = steps + 1
           /\ last'.op \in {"set", "delete"}
           /\ last'.err = "none"
           /\ InCreatedGraph(last'.ref))
          => \A l \in Listeners(RootList) : Invoked(last'.notes, l) > 0
      ]_vars

\* The maximum scroll position of the page as it is.
MaxY == paging.page.scrollBox.height - paging.page.viewportBox.height

AtMaxY == paging.page.scrollPosition.y = MaxY

\* A step that ends a pageDown: scrollToPosition has been called.
PageDownEnds == paging.pc = "scroll" /\ paging'.pc = "idle"

\* C17: for the state pageDown read, the position it scrolls to has x = 0
\* and y = min(scrollPosition.y + 0.9 * viewportBox.height,
\* scrollBox.height - viewportBox.height), which is never beyond the maximum
\* scroll position of that state; the page is scrolled to exactly there.
C17_PageDownPosition ==
    [][PageDownEnds
       => LET st   == paging.state
              maxY == st.scrollBox.height - st.viewportBox.height
              y    == Min(st.scrollPosition.y
                             + (9 * st.viewportBox.height) \div Unit, maxY)
          IN  /\ paging'.scrolledTo = [x |-> 0, y |-> y]
              /\ paging'.scrolledTo.y <= ComputeMaxScrollPositions(st).y
              /\ (0 <= y /\ y <= MaxY)
                 => paging'.page.scrollPosition = paging'.scrolledTo
              /\ paging'.page.scrollBox = paging.page.scrollBox
              /\ paging'.page.viewportBox = paging.page.viewportBox
      ]_vars

\* A pageDown whose page was resized after the state was read: it scrolled
\* to the maximum of the state it read, short of a full page further.
C17_ClampedAfterResize ==
    /\ paging.pc = "idle"
    /\ paging.resizes = 1
    /\ paging.state.scrollBox.height # paging.page.scrollBox.height
    /\ paging.state.scrollPosition.x # 0
    /\ paging.scrolledTo.x = 0
    /\ paging.scrolledTo.y > 0
    /\ paging.scrolledTo.y
          = paging.state.scrollBox.height - paging.state.viewportBox.height
    /\ paging.scrolledTo.y
          < paging.state.scrollPosition.y
               + (9 * paging.state.viewportBox.height) \div Unit
    /\ paging.page.scrollPosition = paging.scrolledTo

\* The bottom edge of the viewport and the end of the document, for the
\* state fullyPaginated was last given.
Bottom ==
    paging.answer.state.scrollPosition.y
        + paging.answer.state.viewportBox.height

End == paging.answer.state.scrollBox.height

\* C18 as claimed: fullyPaginated returns true when the bottom edge of the
\* viewport has reached the end of the document, false while any of the
\* document remains below it, and the percentage it uses is at most 100.
C18_TrueExactlyAtTheEnd ==
    paging.answer.asked
    => /\ Bottom >= End => paging.answer.value
       /\ Bottom < End => ~paging.answer.value
       /\ VisualScrollPercentage(paging.answer.state).height <= 100

\* C18 amended: fullyPaginated returns true exactly when 100 times the
\* bottom edge, rounded up to a whole pixel, is more than 99 times the
\* scroll height: in particular whenever the bottom edge has reached the end
\* of a document of positive height; the percentage is at most 100.
C18_TrueWithinOnePercent ==
    paging.answer.asked
    => /\ paging.answer.value
             <=> 100 * CeilDiv(Bottom, Unit) * Unit > 99 * End
       /\ (Bottom >= End /\ End > 0) => paging.answer.value
       /\ VisualScrollPercentage(paging.answer.state).height <= 100

\* fullyPaginated has returned true with more than a pixel of the document
\* still below the viewport.
C18_TrueBeforeTheEnd ==
    /\ paging.answer.asked
    /\ paging.answer.value
    /\ Bottom + Unit < End

\* The page C19 is about: fixed boxes of positive height, the scroll
\* position between 0 and the maximum.
FixedPage ==
    /\ paging.pc \in {"idle", "scroll"}
    /\ paging.fixed
    /\ paging.page.viewportBox.height > 0
    /\ paging.page.scrollBox.height > 0
    /\ paging.page.scrollPosition.y >= 0
    /\ paging.page.scrollPosition.y
          <= paging.page.scrollBox.height - paging.page.viewportBox.height

\* C19: on such a page every pageDown moves scrollPosition.y strictly up
\* until it is the maximum scroll position, where it stays; the maximum is
\* reached after finitely many pageDowns; fullyPaginated is true there and,
\* once true, stays true under further pageDowns.
C19_PageDownReachesTheEnd ==
    /\ [][FixedPage
          => /\ PageDownEnds
                => /\ ~AtMaxY => paging'.page.scrollPosition.y
                                    > paging.page.scrollPosition.y
                   /\ paging'.page.scrollPosition.y <= MaxY
             /\ AtMaxY => paging'.page.scrollPosition.y = MaxY
             /\ AtMaxY => FullyPaginated(paging.page)
             /\ FullyPaginated(paging.page) => FullyPaginated(paging'.page)
         ]_vars
    /\ FixedPage ~> (AtMaxY /\ FullyPaginated(paging.page))

\* Paging down has brought a fixed page from its start to the maximum
\* scroll position, and fullyPaginated has then returned true.
C19_PagedToTheEnd ==
    /\ FixedPage
    /\ paging.pc = "idle"
    /\ AtMaxY
    /\ MaxY \notin StartYs
    /\ paging.scrolledTo.y = MaxY
    /\ paging.answer.asked
    /\ paging.answer.state = paging.page
    /\ paging.answer.value

====
